---- MODULE Spec2Model ----
(***************************************************************************)
(* A model of the log-structured key/value store of src/src/kvs.rs.        *)
(*                                                                         *)
(* The directory is a set of numbered segment files {gen}.log plus the     *)
(* scratch file temp_log.log that compaction writes.  A file is a sequence *)
(* of framed records; a frame whose byte count n is below its full length  *)
(* is a torn write (the process died inside serialize_to_log).             *)
(***************************************************************************)
EXTENDS Integers, Sequences, FiniteSets, TLC

\* kvs.rs:18  const COMPACTION_THRESHOLD: u64 = 1024 * 1024
COMPACTION_THRESHOLD == 1048576
\* common.rs:70  message.len().to_le_bytes(): a usize has 8 bytes
UsizeBytes == 8

\* ------------------------------------------------------------ bounds
\* Byte length of the one long value the callers use (longer than the threshold,
\* so that a single displaced record makes the store want a compaction).
BigLen == 1100000
\* Frames (whole or torn) the directory may hold before set/remove stop being called.
MaxFrames == 4
\* Highest segment generation open may create.
MaxGen == 2
\* I/O failures and process deaths the environment may inject.
MaxFaults == 1
\* Longest value string of a network message.
MaxStr == 28
\* Longest key or error string of a network message.
MaxKey == 1
\* Messages a sender writes to one stream.
MaxSends == 2

\* ------------------------------------------------------------ inputs
KeySeq == <<"a", "b">>
Keys == {KeySeq[i] : i \in 1..Len(KeySeq)}
\* "x" is a one-byte value, "L" stands for a value of BigLen bytes.
Values == {"x", "L"}
StrLen(s) == IF s = "L" THEN BigLen ELSE IF s = "" THEN 0 ELSE 1

\* Results of calls: Option<String> values and errors, all as tuples.
None == <<"None">>
Some(v) == <<"Some", v>>
Ok == <<"Ok">>
Err(kind) == <<"Err", kind>>

\* ------------------------------------------------------------ log records
\* enum KvsLogLine { Set { key, value }, Rm { key } }
SetLine(k, v) == [type |-> "Set", key |-> k, value |-> v]
RmLine(k) == [type |-> "Rm", key |-> k, value |-> ""]

\* Bytes of the flexbuffers payload of a log line.  The encoder's exact overhead is
\* abstracted to the bytes of the variant and field names; what matters is that the
\* payload grows with the strings it carries.
PayloadLen(line) ==
    IF line.type = "Set"
    THEN 3 + 3 + StrLen(line.key) + 5 + StrLen(line.value)
    ELSE 2 + 3 + StrLen(line.key)

\* serialize_to_log writes a 4-byte little-endian length and then the payload.
FrameLen(line) == 4 + PayloadLen(line)

\* A frame on disk: the log line it carries and the n bytes of it that are there.
Frame(line, n) == [type |-> line.type, key |-> line.key, value |-> line.value, n |-> n]
Whole(line) == Frame(line, FrameLen(line))
IsWhole(f) == f.n = FrameLen(f)
LineOf(f) == [type |-> f.type, key |-> f.key, value |-> f.value]

RECURSIVE FileLen(_)
FileLen(file) ==
    IF file = <<>> THEN 0 ELSE file[1].n + FileLen(Tail(file))

\* Byte offset at which the i-th frame of a file starts.
FrameStart(file, i) == FileLen(SubSeq(file, 1, i - 1))

\* A CommandPos that names the generation after the one it was built for.
CommandPosNextGen(gen, start, end) == [gen |-> gen + 1, pos |-> start, len |-> end - start]

\* CommandPos { gen, pos, len }, built from (gen, start..end)
CommandPos(gen, start, end) == [gen |-> gen, pos |-> start, len |-> end - start]

\* ------------------------------------------------------------ reading
\* deserialize_from_log on a reader positioned at byte pos of a file.  The reader's
\* read_exact drops the result of the inner read_exact and always answers Ok, so a
\* read that runs past the end of the file leaves the rest of the buffer zeroed:
\* the length prefix or the payload is then not what was written, and the payload
\* (whose last byte, the root width, is 0 or missing) does not decode.  Only a frame
\* that starts at pos and is wholly in the file decodes.
deserialize_from_log(file, pos) ==
    LET at == {i \in 1..Len(file) : FrameStart(file, i) = pos}
    IN  IF at # {} /\ IsWhole(file[CHOOSE i \in at : TRUE])
        THEN LET f == file[CHOOSE i \in at : TRUE]
             IN  [ok |-> TRUE, line |-> LineOf(f), pos |-> pos + f.n]
        ELSE [ok |-> FALSE, line |-> RmLine(""), pos |-> pos]

EmptyIndex == [k \in {} |-> CommandPos(0, 0, 0)]

\* A BTreeMap::insert that keeps the entry a key already has.
IndexInsertKeepsOld(index, key, cp) ==
    IF key \in DOMAIN index THEN index
    ELSE [k \in DOMAIN index \cup {key} |-> IF k = key THEN cp ELSE index[k]]

IndexInsert(index, key, cp) ==
    [k \in DOMAIN index \cup {key} |-> IF k = key THEN cp ELSE index[k]]
\* A BTreeMap::remove that leaves the entry in place.
IndexRemoveKeeps(index, key) == index

IndexRemove(index, key) ==
    [k \in DOMAIN index \ {key} |-> index[k]]

\* The loop of load, from byte pos on: st = [ok, index, uncompacted].
RECURSIVE LoadFrom(_, _, _, _)
LoadFrom(gen, file, pos, st) ==
    IF pos >= FileLen(file)                       \* reader.is_empty()
    THEN st
    ELSE LET d == deserialize_from_log(file, pos)
         IN  IF ~d.ok
             THEN [st EXCEPT !.ok = FALSE]        \* deserialize_from_log(reader)?
             ELSE LET key == d.line.key
                      old == IF key \in DOMAIN st.index THEN st.index[key].len ELSE 0
                      nxt == IF d.line.type = "Set"
                             THEN [ok |-> TRUE,
                                   index |-> IndexInsert(st.index, key,
                                                         CommandPos(gen, pos, d.pos)),
                                   uncompacted |-> st.uncompacted + old]
                             ELSE [ok |-> TRUE,
                                   index |-> IndexRemove(st.index, key),
                                   uncompacted |-> st.uncompacted + old + (d.pos - pos)]
                  IN  LoadFrom(gen, file, d.pos, nxt)

\* load(gen, reader, index): replays one segment into the index and returns the
\* stale bytes it saw.
load(gen, file, st) == LoadFrom(gen, file, 0, st)

\* sorted_gen_list: the generations of the directory, ascending.
RECURSIVE sorted_gen_list(_)
sorted_gen_list(gens) ==
    IF gens = {} THEN <<>>
    ELSE LET m == CHOOSE g \in gens : \A h \in gens : g <= h
         IN  <<m>> \o sorted_gen_list(gens \ {m})

\* The for loop of open over gen_list; stops at the first load that fails.
RECURSIVE Replay(_, _, _)
Replay(dir, gen_list, st) ==
    IF gen_list = <<>> \/ ~st.ok THEN st
    ELSE Replay(dir, Tail(gen_list), load(gen_list[1], dir[gen_list[1]], st))


\* ------------------------------------------------------------ state
VARIABLES
    dir,          \* the directory: generation -> contents of {gen}.log
    temp,         \* contents of temp_log.log (<<>> when it does not exist)
    opened,       \* TRUE while a KvStore value exists for the directory
    index,        \* KvStore.index: key -> CommandPos
    readers,      \* KvStore.readers: the generations that have a reader
    writer,       \* KvStore.writer: [pos, buf], buf = frames still in the BufWriter
    current_gen,  \* KvStore.current_gen
    uncompacted,  \* KvStore.uncompacted
    faults,       \* I/O failures and process deaths injected so far
    last,         \* the last call and what it returned
    hist,         \* per key, the last set/remove this store answered Ok to
    clean,        \* TRUE while no call on this store has returned an I/O or decode error
    saved,        \* what was observable when the store was last closed or died
    comp,         \* what the compaction inside the last call started from
    compacted,    \* TRUE once a compaction has run since the store was opened
    message,      \* codec: the NetworkConnection value last serialized
    buf,          \* codec: the bytes deserialize_message is given
    decoded,      \* codec: what deserialize_message returned
    sent,         \* framing: the messages send_network_message was called with
    stream,       \* framing: the bytes written to the TcpStream and not yet read
    peer_closed,  \* framing: the sending side has closed the stream
    received,     \* framing: what receive_network_message did
    marker,       \* server: contents of the .engine file ("absent": no such file)
    server,       \* server: the kvs-server process and how its main got on
    conn,         \* server: the connection main has accepted
    probe,        \* get on its own: the index entry it was given and its answer
    db,           \* sled: the Db of a SledKvsEngine, key -> value
    sled_last     \* sled: what the last call on the SledKvsEngine returned

storevars == <<dir, temp, opened, index, readers, writer, current_gen, uncompacted,
               faults, last, hist, clean, saved, comp, compacted>>
codecvars == <<message, buf, decoded>>
framevars == <<sent, stream, peer_closed, received>>
srvvars == <<marker, server, conn>>
enginevars == <<probe, db, sled_last>>
vars == <<storevars, codecvars, framevars, srvvars, enginevars>>

NoWriter == [pos |-> 0, buf |-> <<>>]
NoHist == [k \in Keys |-> "untouched"]
NoSaved == [kind |-> "none", map |-> [k \in Keys |-> None], hist |-> NoHist,
            clean |-> TRUE, dir |-> <<>>]
NoComp == [fired |-> FALSE, map |-> [k \in Keys |-> None], size |-> 0, gen |-> 0,
           gens |-> {}]
Call(op, key, value, res) == [op |-> op, key |-> key, value |-> value, res |-> res]
\* No message has been serialized, nothing has been decoded or received yet.
NoMessage == [variant |-> "none", command |-> "", key |-> <<>>, value |-> <<>>,
              error |-> <<>>]
NotCalled == <<"NotCalled">>
NotReceived == [res |-> <<"NotCalled">>, taken |-> 0]
\* No connection; the server process before its first start.
NoConn == [state |-> "none", input |-> <<>>, client |-> FALSE, output |-> <<>>]
ServerDown == [state |-> "down", engine_name |-> "", requested |-> "", owner |-> "",
               result |-> Ok]
\* get has not been given an index entry yet; an empty Db.
NoProbe == [key |-> "", at |-> CommandPos(0, 0, 0), record |-> [type |-> "none"],
            res |-> <<"NotCalled">>]
EmptyDb == [k \in {} |-> ""]

\* KvStore::get against a given index, reader set and directory.  The result of the
\* seek is dropped and the key of the record found is not compared (key: _).
KvGet(ix, rd, d, key) ==
    IF key \notin DOMAIN ix
    THEN None
    ELSE LET cmd_pos == ix[key]
         IN  IF cmd_pos.gen \notin rd
             THEN <<"panic", "Cannot find log reader">>
             ELSE LET r == deserialize_from_log(d[cmd_pos.gen], cmd_pos.pos)
                  IN  IF ~r.ok THEN Err("Deserialize")
                      ELSE IF r.line.type = "Set" THEN Some(r.line.value)
                      ELSE Err("UnexpectedCommandType")

get(key) == KvGet(index, readers, dir, key)

\* The key -> result mapping a caller observes through get.
GetMapOf(ix, rd, d) == [k \in Keys |-> KvGet(ix, rd, d, k)]
GetMap == GetMapOf(index, readers, dir)

RECURSIVE SumLen(_, _)
SumLen(d, gens) ==
    IF gens = {} THEN 0
    ELSE LET g == CHOOSE g \in gens : TRUE
         IN  FileLen(d[g]) + SumLen(d, gens \ {g})

\* Bytes of all *.log files of the directory.
DirBytes(d, tmp) == SumLen(d, DOMAIN d) + FileLen(tmp)

RECURSIVE SumFrames(_, _)
SumFrames(d, gens) ==
    IF gens = {} THEN 0
    ELSE LET g == CHOOSE g \in gens : TRUE
         IN  Len(d[g]) + SumFrames(d, gens \ {g})

Frames == SumFrames(dir, DOMAIN dir) + Len(temp) + Len(writer.buf)

\* The first generation of the list instead of the last.
FirstOf(gens) == IF gens = {} THEN 0 ELSE CHOOSE g \in gens : \A h \in gens : g <= h

MaxOf(gens) == IF gens = {} THEN 0 ELSE CHOOSE g \in gens : \A h \in gens : h <= g

Init ==
    /\ dir = <<>>
    /\ temp = <<>>
    /\ opened = FALSE
    /\ index = EmptyIndex
    /\ readers = {}
    /\ writer = NoWriter
    /\ current_gen = 0
    /\ uncompacted = 0
    /\ faults = 0
    /\ last = Call("none", "", "", Ok)
    /\ hist = NoHist
    /\ clean = TRUE
    /\ saved = NoSaved
    /\ comp = NoComp
    /\ compacted = FALSE
    /\ message = NoMessage
    /\ buf = <<>>
    /\ decoded = NotCalled
    /\ sent = <<>>
    /\ stream = <<>>
    /\ peer_closed = FALSE
    /\ received = NotReceived
    /\ marker = "absent"
    /\ server = ServerDown
    /\ conn = NoConn
    /\ probe = NoProbe
    /\ db = EmptyDb
    /\ sled_last = NotCalled

\* new_log_file: creates {gen}.log for appending and adds a reader for it.
new_log_file(d, gen) ==
    [g \in DOMAIN d \cup {gen} |-> IF g \in DOMAIN d THEN d[g] ELSE <<>>]

\* KvStore::open
Open ==
    /\ ~opened
    /\ MaxOf(DOMAIN dir) < MaxGen
    /\ LET gen_list == sorted_gen_list(DOMAIN dir)
           st == Replay(dir, gen_list,
                        [ok |-> TRUE, index |-> EmptyIndex, uncompacted |-> 0])
           gen == MaxOf(DOMAIN dir) + 1
       IN  IF st.ok
           THEN /\ opened' = TRUE
                /\ dir' = new_log_file(dir, gen)
                /\ index' = st.index
                /\ readers' = DOMAIN dir \cup {gen}
                /\ writer' = NoWriter
                /\ current_gen' = gen
                /\ uncompacted' = st.uncompacted
                /\ last' = Call("open", "", "", Ok)
           ELSE /\ last' = Call("open", "", "", Err("Deserialize"))
                /\ UNCHANGED <<opened, dir, index, readers, writer, current_gen,
                               uncompacted>>
    /\ hist' = NoHist
    /\ clean' = TRUE
    /\ comp' = NoComp
    /\ compacted' = FALSE
    /\ UNCHANGED <<temp, faults, saved>>

\* KvStore::get as a call: only the reader's position moves.
Get(key) ==
    /\ opened
    /\ last' = Call("get", "", "", get(key))
    /\ comp' = NoComp
    /\ UNCHANGED <<dir, temp, opened, index, readers, writer, current_gen,
                   uncompacted, faults, hist, clean, saved, compacted>>


\* A writer whose pos counts the payload bytes only, not the 4 length bytes.
BufferedPayloadOnly(w, line) ==
    [pos |-> w.pos + PayloadLen(line), buf |-> Append(w.buf, Whole(line))]

\* serialize_to_log up to its flush: both writes go to the BufWriter and advance pos.
Buffered(w, line) ==
    [pos |-> w.pos + FrameLen(line), buf |-> Append(w.buf, Whole(line))]

\* write_handle.flush(): the buffered frames reach the end of the active segment.
Flushed(d, gen, w) == [d EXCEPT ![gen] = @ \o w.buf]

\* The loop of compaction over the index (a BTreeMap: in key order): every live
\* record is read back through its reader and serialized again into the scratch
\* file, and the fresh index gets the offset it was written at.
\* acc = [ok, file, index].
RECURSIVE CopyLive(_, _, _, _, _)
CopyLive(keys, ix, d, gen, acc) ==
    IF keys = <<>> \/ ~acc.ok THEN acc
    ELSE IF keys[1] \notin DOMAIN ix THEN CopyLive(Tail(keys), ix, d, gen, acc)
    ELSE LET old == ix[keys[1]]
             r == deserialize_from_log(d[old.gen], old.pos)
             new_offset == FileLen(acc.file)
         IN  IF ~r.ok
             THEN [acc EXCEPT !.ok = FALSE]
             ELSE CopyLive(Tail(keys), ix, d, gen,
                           [ok |-> TRUE,
                            file |-> Append(acc.file, Whole(r.line)),
                            index |-> IndexInsert(acc.index, keys[1],
                                          CommandPos(gen, new_offset,
                                                     new_offset + FrameLen(r.line)))])

\* KvStore::compaction, run on the store [index, dir, temp, current_gen] that set
\* has just appended to.  The body is written against the single-file layout
\* (directory_path, elements, read_file_handle, write_file_handle, stale_entries);
\* it is read here with directory_path as the active segment's path, elements as
\* index, the file handles as the active segment's reader and writer and
\* stale_entries as uncompacted.  It appends the live records to temp_log.log
\* (opened create + append, never truncated), renames that file over the active
\* segment and takes the scratch file's handles as the store's.  No generation is
\* allocated and no segment is unlinked.
compaction(ix, d, tmp, gen) ==
    LET c == CopyLive(KeySeq, ix, d, gen,
                      [ok |-> TRUE, file |-> tmp, index |-> EmptyIndex])
    IN  IF ~c.ok
        THEN [ok |-> FALSE, dir |-> d, temp |-> tmp, index |-> ix,
              writer |-> NoWriter, current_gen |-> gen, readers |-> DOMAIN d]
        ELSE [ok |-> TRUE,
              dir |-> [d EXCEPT ![gen] = c.file],      \* fs::rename(temp_path, ..)
              temp |-> <<>>,
              index |-> c.index,                       \* self.elements = elements
              writer |-> [pos |-> FileLen(c.file), buf |-> <<>>],
              current_gen |-> gen,
              readers |-> DOMAIN d]

\* KvStore::set.  io = FALSE: the flush inside serialize_to_log fails.
Set(key, value, io) ==
    /\ opened
    /\ Frames < MaxFrames
    /\ ~io => faults < MaxFaults
    /\ LET line == SetLine(key, value)
           w1 == Buffered(writer, line)
       IN  IF ~io
           THEN \* serialize_to_log(..)? returns the error; the frame stays buffered
                /\ writer' = w1
                /\ faults' = faults + 1
                /\ last' = Call("set", key, value, Err("Io"))
                /\ clean' = FALSE
                /\ comp' = NoComp
                /\ UNCHANGED <<dir, temp, index, readers, current_gen, uncompacted,
                               hist, compacted>>
           ELSE LET d1 == Flushed(dir, current_gen, w1)
                    ix1 == IndexInsert(index, key,
                                       CommandPos(current_gen, writer.pos, w1.pos))
                    u1 == uncompacted
                          + (IF key \in DOMAIN index THEN index[key].len ELSE 0)
                IN  IF u1 > COMPACTION_THRESHOLD
                    THEN LET c == compaction(ix1, d1, temp, current_gen)
                         IN  /\ dir' = c.dir
                             /\ temp' = c.temp
                             /\ index' = c.index
                             /\ writer' = c.writer
                             /\ current_gen' = c.current_gen
                             /\ uncompacted' = IF c.ok THEN 0 ELSE u1
                             /\ last' = Call("set", key, value,
                                             IF c.ok THEN Ok ELSE Err("Deserialize"))
                             /\ hist' = IF c.ok THEN [hist EXCEPT ![key] = value]
                                        ELSE hist
                             /\ clean' = (clean /\ c.ok)
                             /\ comp' = [fired |-> TRUE,
                                         map |-> GetMapOf(ix1, readers, d1),
                                         size |-> DirBytes(d1, temp),
                                         gen |-> current_gen,
                                         gens |-> DOMAIN d1]
                             /\ compacted' = TRUE
                             /\ UNCHANGED <<readers, faults>>
                    ELSE /\ dir' = d1
                         /\ index' = ix1
                         /\ writer' = [pos |-> w1.pos, buf |-> <<>>]
                         /\ uncompacted' = u1
                         /\ last' = Call("set", key, value, Ok)
                         /\ hist' = [hist EXCEPT ![key] = value]
                         /\ comp' = NoComp
                         /\ UNCHANGED <<temp, readers, current_gen, faults, clean,
                                        compacted>>
    /\ saved' = NoSaved
    /\ UNCHANGED opened

\* A remove without the contains_key test: it appends the record and answers Ok.
RemoveUnchecked(key, io) ==
    /\ opened
    /\ Frames < MaxFrames
    /\ ~io => faults < MaxFaults
    /\ LET w1 == Buffered(writer, RmLine(key))
       IN  /\ dir' = IF io THEN Flushed(dir, current_gen, w1) ELSE dir
           /\ writer' = IF io THEN [pos |-> w1.pos, buf |-> <<>>] ELSE w1
           /\ index' = IndexRemove(index, key)
           /\ uncompacted' = uncompacted
                             + (IF key \in DOMAIN index THEN index[key].len ELSE 0)
           /\ last' = Call("remove", key, "", Ok)
           /\ hist' = [hist EXCEPT ![key] = "removed"]
           /\ faults' = IF io THEN faults ELSE faults + 1
    /\ comp' = NoComp
    /\ saved' = NoSaved
    /\ UNCHANGED <<temp, opened, readers, current_gen, clean, compacted>>

\* KvStore::remove.  io = FALSE: the flush inside serialize_to_log fails, and the
\* call drops that result.
Remove(key, io) ==
    /\ opened
    /\ key \in DOMAIN index => Frames < MaxFrames
    /\ ~io => faults < MaxFaults /\ key \in DOMAIN index
    /\ IF key \notin DOMAIN index
       THEN /\ last' = Call("remove", key, "", Err("KeyDoesNotExist"))
            /\ UNCHANGED <<dir, index, writer, uncompacted, hist, faults>>
       ELSE LET w1 == Buffered(writer, RmLine(key))
            IN  /\ dir' = IF io THEN Flushed(dir, current_gen, w1) ELSE dir
                /\ writer' = IF io THEN [pos |-> w1.pos, buf |-> <<>>] ELSE w1
                /\ index' = IndexRemove(index, key)
                /\ uncompacted' = uncompacted + index[key].len
                /\ last' = Call("remove", key, "", Ok)
                /\ hist' = [hist EXCEPT ![key] = "removed"]
                /\ faults' = IF io THEN faults ELSE faults + 1
    /\ comp' = NoComp
    /\ saved' = NoSaved
    /\ UNCHANGED <<temp, opened, readers, current_gen, clean, compacted>>


\* The KvStore value is gone: nothing of it is left in memory.
Dropped ==
    /\ opened' = FALSE
    /\ index' = EmptyIndex
    /\ readers' = {}
    /\ writer' = NoWriter
    /\ current_gen' = 0
    /\ uncompacted' = 0
    /\ hist' = NoHist
    /\ clean' = TRUE
    /\ comp' = NoComp
    /\ compacted' = FALSE

Observed(kind, map, d) ==
    [kind |-> kind, map |-> map, hist |-> IF kind = "crash" THEN hist ELSE NoHist,
     clean |-> clean, dir |-> d]

\* The store is dropped.  BufWriter's drop flushes what a failed flush left in the
\* buffer and ignores the outcome (io).
Close(io) ==
    /\ opened
    /\ writer.buf = <<>> => io
    /\ dir' = IF io THEN Flushed(dir, current_gen, writer) ELSE dir
    /\ saved' = Observed("close", GetMap, <<>>)
    /\ last' = Call("close", "", "", Ok)
    /\ Dropped
    /\ UNCHANGED <<temp, faults>>

\* The process dies between two calls: what the BufWriter still holds is lost.
Crash ==
    /\ opened
    /\ faults < MaxFaults
    /\ faults' = faults + 1
    /\ saved' = Observed("crash", GetMap, <<>>)
    /\ last' = Call("crash", "", "", Ok)
    /\ Dropped
    /\ UNCHANGED <<dir, temp>>

\* The process dies inside the serialize_to_log of a set, in the flush: only the
\* first n bytes of the frame reach the active segment (n < 4: inside the length
\* prefix; otherwise the payload is short).
TornSizes(line) == {2, FrameLen(line) - 1}

CrashInWrite(line, n) ==
    /\ opened
    /\ Frames < MaxFrames
    /\ faults < MaxFaults
    /\ faults' = faults + 1
    /\ dir' = [dir EXCEPT ![current_gen] = (@ \o writer.buf) \o <<Frame(line, n)>>]
    /\ saved' = Observed("torn", GetMap, <<>>)
    /\ last' = Call("crash", "", "", Ok)
    /\ Dropped
    /\ UNCHANGED temp

\* The process dies inside the compaction that set(key, value) started: after n live
\* records reached temp_log.log (n <= live), or after the rename (n = live + 1).
CrashInCompaction(key, value, n) ==
    /\ opened
    /\ Frames < MaxFrames
    /\ faults < MaxFaults
    /\ LET w1 == Buffered(writer, SetLine(key, value))
           d1 == Flushed(dir, current_gen, w1)
           ix1 == IndexInsert(index, key, CommandPos(current_gen, writer.pos, w1.pos))
           u1 == uncompacted + (IF key \in DOMAIN index THEN index[key].len ELSE 0)
           c == compaction(ix1, d1, temp, current_gen)
           live == Cardinality(DOMAIN ix1)
       IN  /\ u1 > COMPACTION_THRESHOLD
           /\ c.ok
           /\ n <= live + 1
           /\ dir' = IF n = live + 1 THEN c.dir ELSE d1
           /\ temp' = IF n = live + 1 THEN c.temp
                      ELSE SubSeq(c.dir[current_gen], 1, Len(temp) + n)
           /\ saved' = Observed("compaction", GetMapOf(ix1, readers, d1), d1)
    /\ faults' = faults + 1
    /\ last' = Call("crash", "", "", Ok)
    /\ Dropped

SetLines == {SetLine("a", "x"), SetLine("a", "L"), SetLine("b", "L")}

\* The store on its own: nothing is serialized or sent.
Next ==
    \/ Open /\ UNCHANGED <<codecvars, framevars, srvvars, enginevars>>
    \/ \E k \in Keys : Get(k) /\ UNCHANGED <<codecvars, framevars, srvvars, enginevars>>
    \/ \E l \in SetLines, io \in BOOLEAN :
          Set(l.key, l.value, io) /\ UNCHANGED <<codecvars, framevars, srvvars, enginevars>>
    \/ \E k \in Keys, io \in BOOLEAN :
          Remove(k, io) /\ UNCHANGED <<codecvars, framevars, srvvars, enginevars>>
    \/ \E io \in BOOLEAN : Close(io) /\ UNCHANGED <<codecvars, framevars, srvvars, enginevars>>
    \/ Crash /\ UNCHANGED <<codecvars, framevars, srvvars, enginevars>>
    \/ \E line \in SetLines : \E n \in TornSizes(line) :
          CrashInWrite(line, n) /\ UNCHANGED <<codecvars, framevars, srvvars, enginevars>>
    \/ \E l \in SetLines, n \in 0..(Len(KeySeq) + 1) :
          CrashInCompaction(l.key, l.value, n) /\ UNCHANGED <<codecvars, framevars, srvvars, enginevars>>

Spec == Init /\ [][Next]_vars


\* ------------------------------------------------------------ get on its own
\* KvStore::get called on a store whose index maps key to the place of the i-th
\* record of segment g, whatever that record is.  probe keeps the entry, the record
\* that is at that place and what get answered.
GetAt(key, g, i) ==
    /\ opened
    /\ g \in DOMAIN dir
    /\ i \in 1..Len(dir[g])
    /\ LET start == FrameStart(dir[g], i)
           at == CommandPos(g, start, start + dir[g][i].n)
       IN  probe' = [key |-> key, at |-> at, record |-> LineOf(dir[g][i]),
                     res |-> KvGet(IndexInsert(index, key, at), readers, dir, key)]
    /\ UNCHANGED <<storevars, codecvars, framevars, srvvars, db, sled_last>>

GetNext ==
    \/ Open /\ UNCHANGED <<codecvars, framevars, srvvars, enginevars>>
    \/ \E l \in SetLines :
          Set(l.key, l.value, TRUE) /\ UNCHANGED <<codecvars, framevars, srvvars, enginevars>>
    \/ \E k \in Keys :
          Remove(k, TRUE) /\ UNCHANGED <<codecvars, framevars, srvvars, enginevars>>
    \/ Close(TRUE) /\ UNCHANGED <<codecvars, framevars, srvvars, enginevars>>
    \/ \E k \in Keys, g \in 1..MaxGen, i \in 1..MaxFrames : GetAt(k, g, i)

GetSpec == Init /\ [][GetNext]_vars


\* ------------------------------------------------------------ network messages
\* Strings of messages are byte sequences.  Text(n) is a string of n different
\* bytes, none of them ASCII whitespace.
Text(n) == [i \in 1..n |-> 96 + i]

\* enum Commands { Set { key, value }, Get { key }, Rm { key } } inside
\* enum NetworkConnection { Request { command }, Response { value }, Error { error }, Ok }
Request(cmd, k, v) ==
    [variant |-> "Request", command |-> cmd, key |-> k, value |-> v, error |-> <<>>]
Response(v) ==
    [variant |-> "Response", command |-> "", key |-> <<>>, value |-> v, error |-> <<>>]
Error(e) ==
    [variant |-> "Error", command |-> "", key |-> <<>>, value |-> <<>>, error |-> e]
OkMessage ==
    [variant |-> "Ok", command |-> "", key |-> <<>>, value |-> <<>>, error |-> <<>>]

\* The messages the callers build: every variant, values of every length up to
\* MaxStr, keys and error texts up to MaxKey.
Messages ==
    {OkMessage}
    \cup {Response(Text(n)) : n \in 0..MaxStr}
    \cup {Error(Text(n)) : n \in 0..MaxKey}
    \cup {Request("Get", Text(n), <<>>) : n \in 0..MaxKey}
    \cup {Request("Rm", Text(n), <<>>) : n \in 0..MaxKey}
    \cup {Request("Set", Text(n), Text(m)) : n \in 0..MaxKey, m \in 0..MaxKey}

\* The flexbuffers byte layout is abstracted to a tagged layout that keeps what the
\* code relies on: the encoding is self-describing, strings carry their length, and
\* the root descriptor (type byte, width byte) is at the end of the buffer.
VariantTag(variant) ==
    CASE variant = "Request" -> 1 [] variant = "Response" -> 2
      [] variant = "Error" -> 3 [] OTHER -> 4
\* A tagging that gives Get and Rm the same tag.
CommandTagMerged(cmd) == IF cmd = "Set" THEN 1 ELSE 2

CommandTag(cmd) ==
    CASE cmd = "Set" -> 1 [] cmd = "Get" -> 2 [] OTHER -> 3
StrBytes(s) == <<Len(s)>> \o s
RootOf(variant) == IF variant = "Ok" THEN <<20, 1>> ELSE <<36, 1>>

\* NetworkConnection::serialize_message
serialize_message(m) ==
    (CASE m.variant = "Ok" -> <<VariantTag("Ok")>>
       [] m.variant = "Response" -> <<VariantTag("Response")>> \o StrBytes(m.value)
       [] m.variant = "Error" -> <<VariantTag("Error")>> \o StrBytes(m.error)
       [] OTHER ->
            <<VariantTag("Request"), CommandTag(m.command)>> \o StrBytes(m.key)
            \o (IF m.command = "Set" THEN StrBytes(m.value) ELSE <<>>))
    \o RootOf(m.variant)

\* A length-carrying string read at index at of the bytes b.
ReadStr(b, at) ==
    IF at <= Len(b) /\ at + b[at] <= Len(b)
    THEN [ok |-> TRUE, s |-> SubSeq(b, at + 1, at + b[at]), next |-> at + b[at] + 1]
    ELSE [ok |-> FALSE, s |-> <<>>, next |-> at]

\* NetworkConnection::deserialize(r) on the bytes before the root descriptor.
DeserializeBody(b, root) ==
    IF b = <<>> THEN Err("Deserializer")
    ELSE IF b[1] = VariantTag("Ok")
    THEN IF Len(b) = 1 /\ root = RootOf("Ok") THEN <<"Ok", OkMessage>>
         ELSE Err("Deserializer")
    ELSE IF root # RootOf("Request") THEN Err("Deserializer")
    ELSE IF b[1] \in {VariantTag("Response"), VariantTag("Error")}
    THEN LET r == ReadStr(b, 2)
         IN  IF r.ok /\ r.next = Len(b) + 1
             THEN <<"Ok", IF b[1] = VariantTag("Response") THEN Response(r.s)
                          ELSE Error(r.s)>>
             ELSE Err("Deserializer")
    ELSE IF b[1] = VariantTag("Request") /\ Len(b) >= 2
    THEN LET k == ReadStr(b, 3)
             v == ReadStr(b, k.next)
         IN  IF ~k.ok THEN Err("Deserializer")
             ELSE IF b[2] = CommandTag("Set")
             THEN IF v.ok /\ v.next = Len(b) + 1
                  THEN <<"Ok", Request("Set", k.s, v.s)>>
                  ELSE Err("Deserializer")
             ELSE IF b[2] \in {CommandTag("Get"), CommandTag("Rm")}
                     /\ k.next = Len(b) + 1
             THEN <<"Ok", Request(IF b[2] = CommandTag("Get") THEN "Get" ELSE "Rm",
                                  k.s, <<>>)>>
             ELSE Err("Deserializer")
    ELSE Err("Deserializer")

\* NetworkConnection::deserialize_message: Reader::get_root needs at least three
\* bytes and a root width of 1, 2, 4 or 8 in the last byte.
deserialize_message(b) ==
    IF Len(b) < 3 \/ b[Len(b)] \notin {1, 2, 4, 8}
    THEN Err("Reader")
    ELSE DeserializeBody(SubSeq(b, 1, Len(b) - 2), SubSeq(b, Len(b) - 1, Len(b)))

\* A caller serializes the message m.
SerializeMessage(m) ==
    /\ message = NoMessage
    /\ message' = m
    /\ buf' = serialize_message(m)
    /\ UNCHANGED <<decoded, storevars, framevars, srvvars, enginevars>>

\* Only the first n bytes of the serialized message reach the decoder.
Truncated(n) ==
    /\ message # NoMessage
    /\ decoded = NotCalled
    /\ buf = serialize_message(message)
    /\ n < Len(buf)
    /\ buf' = SubSeq(buf, 1, n)
    /\ UNCHANGED <<message, decoded, storevars, framevars, srvvars, enginevars>>

\* A caller decodes the bytes.
DeserializeMessage ==
    /\ message # NoMessage
    /\ decoded = NotCalled
    /\ decoded' = deserialize_message(buf)
    /\ UNCHANGED <<message, buf, storevars, framevars, srvvars, enginevars>>

CodecNext ==
    \/ \E m \in Messages : SerializeMessage(m)
    \/ \E n \in 0..(MaxStr + MaxKey + 6) : Truncated(n)
    \/ DeserializeMessage

CodecSpec == Init /\ [][CodecNext]_vars


\* ------------------------------------------------------------ framing
\* usize::to_le_bytes / usize::from_le_bytes on a 64-bit target.
RECURSIVE LeBytes(_, _)
LeBytes(n, w) == IF w = 0 THEN <<>> ELSE <<n % 256>> \o LeBytes(n \div 256, w - 1)

to_le_bytes(n) == LeBytes(n, UsizeBytes)

RECURSIVE from_le_bytes(_)
from_le_bytes(b) ==
    IF b = <<>> THEN 0 ELSE b[1] + 256 * from_le_bytes(Tail(b))

\* The bytes send_network_message writes for m: the length of the serialized
\* message, b"\n", the serialized message.
WireFrame(m) ==
    to_le_bytes(Len(serialize_message(m))) \o <<10>> \o serialize_message(m)

\* u8::is_ascii_whitespace: tab, line feed, form feed, carriage return, space.
is_ascii_whitespace(b) == b \in {9, 10, 12, 13, 32}

\* <[u8]>::trim_ascii: the bytes without leading and trailing ASCII whitespace.
RECURSIVE trim_ascii_start(_)
trim_ascii_start(b) ==
    IF b # <<>> /\ is_ascii_whitespace(b[1]) THEN trim_ascii_start(Tail(b)) ELSE b

RECURSIVE trim_ascii_end(_)
trim_ascii_end(b) ==
    IF b # <<>> /\ is_ascii_whitespace(b[Len(b)])
    THEN trim_ascii_end(SubSeq(b, 1, Len(b) - 1))
    ELSE b

trim_ascii(b) == trim_ascii_end(trim_ascii_start(b))

\* BufRead::read_until(b'\n'): the bytes up to and including the first line feed,
\* or all bytes when the stream ends without one; "blocked" while neither is there.
read_until(s, closed) ==
    LET at == {i \in 1..Len(s) : s[i] = 10}
    IN  IF at # {}
        THEN [done |-> TRUE, line |-> SubSeq(s, 1, CHOOSE i \in at : \A j \in at : i <= j)]
        ELSE [done |-> closed, line |-> s]

\* receive_network_message on the bytes s of a stream that the peer has closed or
\* not: [done, res, used], used = the bytes the call itself read.
receive_network_message(s, closed) ==
    LET r == read_until(s, closed)
        t == trim_ascii(r.line)
        content_size == from_le_bytes(t)
        rest == SubSeq(s, Len(r.line) + 1, Len(s))
    IN  IF ~r.done THEN [done |-> FALSE, res |-> NotCalled, used |-> 0]
        ELSE IF Len(t) # UsizeBytes                     \* try_into().unwrap()
        THEN [done |-> TRUE, res |-> <<"panic", "try_into">>, used |-> Len(r.line)]
        ELSE IF Len(rest) >= content_size               \* read_exact
        THEN [done |-> TRUE, res |-> <<"Ok", SubSeq(rest, 1, content_size)>>,
              used |-> Len(r.line) + content_size]
        ELSE IF closed
        THEN [done |-> TRUE, res |-> Err("Io"), used |-> Len(s)]
        ELSE [done |-> FALSE, res |-> NotCalled, used |-> 0]

\* send_network_message(m, stream) runs to its end.
Send(m) ==
    /\ ~peer_closed
    /\ received = NotReceived
    /\ Len(sent) < MaxSends
    /\ sent' = Append(sent, [msg |-> m, bytes |-> Len(WireFrame(m))])
    /\ stream' = stream \o WireFrame(m)
    /\ UNCHANGED <<peer_closed, received, storevars, codecvars, srvvars, enginevars>>

\* The sender goes away after n bytes of its first frame.
SendPartial(m, n) ==
    /\ ~peer_closed
    /\ received = NotReceived
    /\ sent = <<>>
    /\ n < Len(WireFrame(m))
    /\ sent' = <<[msg |-> m, bytes |-> n]>>
    /\ stream' = SubSeq(WireFrame(m), 1, n)
    /\ peer_closed' = TRUE
    /\ UNCHANGED <<received, storevars, codecvars, srvvars, enginevars>>

\* The sender closes the stream after what it sent.
ClosePeer ==
    /\ ~peer_closed
    /\ sent # <<>>
    /\ peer_closed' = TRUE
    /\ UNCHANGED <<sent, stream, received, storevars, codecvars, srvvars, enginevars>>

\* One call of receive_network_message.  Its BufReader is dropped at the end of the
\* call, with it the k bytes it had read from the socket beyond what the call used.
Receive(k) ==
    /\ received = NotReceived
    /\ sent # <<>>
    /\ LET r == receive_network_message(stream, peer_closed)
       IN  /\ r.done
           /\ k <= Len(stream) - r.used
           /\ r.res[1] = "panic" => k = 0
           /\ received' = [res |-> r.res, taken |-> r.used + k]
           /\ stream' = SubSeq(stream, r.used + k + 1, Len(stream))
    /\ UNCHANGED <<sent, peer_closed, storevars, codecvars, srvvars, enginevars>>

FrameNext ==
    \/ \E m \in Messages : Send(m)
    \/ \E m \in Messages, n \in 0..(UsizeBytes + MaxStr + 4) : SendPartial(m, n)
    \/ ClosePeer
    \/ \E k \in 0..(UsizeBytes + MaxStr + 5) : Receive(k)

FrameSpec == Init /\ [][FrameNext]_vars


\* ------------------------------------------------------------ server
\* kvs-server.rs names the message type NetworkCommand and its codec
\* serialize_command / deserialize_command; they are read here as common.rs's
\* NetworkConnection, serialize_message and deserialize_message.

\* String::as_bytes for the strings the store model uses, and its inverse.
Utf8 ==
    [s \in {"", "a", "b", "x"} |->
        CASE s = "a" -> <<97>> [] s = "b" -> <<98>> [] s = "x" -> <<120>>
          [] OTHER -> <<>>]
as_bytes(s) == Utf8[s]
from_utf8(b) == CHOOSE s \in DOMAIN Utf8 : Utf8[s] = b

\* error.rs:36-38  KvsError::KeyDoesNotExist displays as "Key not found"
KeyNotFoundText == <<75, 101, 121, 32, 110, 111, 116, 32, 102, 111, 117, 110, 100>>

\* KvsError::to_string, cut to the fixed head of the text.
to_string(kind) ==
    CASE kind = "KeyDoesNotExist" -> KeyNotFoundText
      [] kind = "Io" -> <<73, 79, 32, 101, 114, 114, 111, 114>>
      [] kind = "UnexpectedCommandType" -> <<85, 110, 101, 120, 112>>
      [] OTHER -> <<68, 101, 115, 101, 114>>

\* What main hands to server_response for the outcome of store.get.
GetReply(res) ==
    IF res[1] = "Some" THEN Response(as_bytes(res[2]))
    ELSE IF res = None THEN Error(to_string("KeyDoesNotExist"))
    ELSE IF res = Err("KeyDoesNotExist") THEN Response(<<>>)
    ELSE Error(to_string(res[2]))

\* What main hands to server_response for the outcome of store.set / store.remove.
UnitReply(res) ==
    IF res[1] = "Err" THEN Error(to_string(res[2])) ELSE Response(<<>>)

\* server_response: the serialized message is written as it is (no length, no line
\* feed) and the result of write_all is dropped; a client that is gone gets nothing.
server_response(c, m) ==
    [c EXCEPT !.state = "closed",
              !.output = IF c.client THEN serialize_message(m) ELSE <<>>]

\* main up to the accept loop, started with --engine arg ("none": no --engine).
Start(arg) ==
    /\ server.state # "listening"
    /\ conn' = NoConn
    /\ IF arg \in {"none", "kvs", "sled"}
       THEN /\ Open
            /\ server' =
                 LET name == IF arg = "none" THEN "kvs" ELSE arg
                 IN  IF last'.res = Ok
                     THEN [state |-> "listening", engine_name |-> name,
                           requested |-> arg,
                           owner |-> IF server.owner = "" THEN name ELSE server.owner,
                           result |-> Ok]
                     ELSE [server EXCEPT !.state = "exited", !.requested = arg,
                                         !.result = <<"panic", "unwrap">>]
       ELSE \* the store is opened first, then the name is refused and main returns
            /\ ~opened
            /\ MaxOf(DOMAIN dir) < MaxGen
            /\ LET st == Replay(dir, sorted_gen_list(DOMAIN dir),
                                [ok |-> TRUE, index |-> EmptyIndex, uncompacted |-> 0])
               IN  /\ dir' = IF st.ok THEN new_log_file(dir, MaxOf(DOMAIN dir) + 1)
                             ELSE dir
                   /\ last' = Call("open", "", "",
                                   IF st.ok THEN Ok ELSE Err("Deserialize"))
                   /\ server' = [server EXCEPT
                                   !.state = "exited", !.requested = arg,
                                   !.result = IF st.ok THEN Err("UnknownEngineType")
                                              ELSE <<"panic", "unwrap">>]
            /\ Dropped
            /\ UNCHANGED <<temp, faults, saved>>
    /\ UNCHANGED <<marker, codecvars, framevars, enginevars>>

\* The server process is stopped; its store is dropped.
Stop ==
    /\ server.state = "listening"
    /\ conn.state # "accepted"
    /\ \E io \in BOOLEAN : Close(io)
    /\ server' = [server EXCEPT !.state = "down"]
    /\ conn' = NoConn
    /\ UNCHANGED <<marker, codecvars, framevars, enginevars>>

\* A client connects, writes input and closes its sending side; client tells
\* whether it stays to read the answer.
Connect(input, client) ==
    /\ server.state = "listening"
    /\ conn.state # "accepted"
    /\ conn' = [state |-> "accepted", input |-> input, client |-> client,
                output |-> <<>>]
    /\ UNCHANGED <<server, marker, storevars, codecvars, framevars, enginevars>>

\* handle_request for the accepted connection, and what main does with its result.
HandleRequest(io) ==
    /\ server.state = "listening"
    /\ conn.state = "accepted"
    /\ LET message_ == deserialize_message(conn.input)     \* after read_to_end
       IN  IF message_[1] = "Err"
           THEN \* deserialize_command(buf)? : main returns the error
                /\ io
                /\ \E dropio \in BOOLEAN : Close(dropio)
                /\ server' = [server EXCEPT !.state = "exited", !.result = message_]
                /\ conn' = [conn EXCEPT !.state = "closed"]
           ELSE IF message_[2].variant # "Request"
           THEN /\ io
                /\ conn' = [conn EXCEPT !.state = "closed"]
                /\ UNCHANGED <<server, storevars>>
           ELSE LET command == message_[2]
                    key == from_utf8(command.key)
                IN  /\ CASE command.command = "Get" ->
                               /\ io
                               /\ Get(key)
                               /\ conn' = server_response(conn, GetReply(last'.res))
                          [] command.command = "Set" ->
                               /\ Set(key, from_utf8(command.value), io)
                               /\ conn' = server_response(conn, UnitReply(last'.res))
                          [] OTHER ->
                               /\ Remove(key, io)
                               /\ conn' = server_response(conn, UnitReply(last'.res))
                    /\ UNCHANGED server
    /\ UNCHANGED <<marker, codecvars, framevars, enginevars>>

\* What clients write: the serialized requests of the client program, a request
\* framed as send_network_message frames it, a request cut short by a disconnect,
\* and a message that is not a request.
Requests ==
    {Request("Set", as_bytes(k), as_bytes("x")) : k \in Keys}
    \cup {Request("Get", as_bytes(k), <<>>) : k \in Keys}
    \cup {Request("Rm", as_bytes(k), <<>>) : k \in Keys}

ClientInputs ==
    {serialize_message(r) : r \in Requests}
    \cup {WireFrame(Request("Get", as_bytes("a"), <<>>))}
    \cup {SubSeq(serialize_message(Request("Set", as_bytes("a"), as_bytes("x"))), 1, n) :
            n \in {2, 4}}
    \cup {serialize_message(OkMessage)}

SrvNext ==
    \/ \E arg \in {"none", "kvs", "sled", "rocks"} : Start(arg)
    \/ Stop
    \/ \E input \in ClientInputs, client \in BOOLEAN : Connect(input, client)
    \/ \E io \in BOOLEAN : HandleRequest(io)

SrvSpec == Init /\ [][SrvNext]_vars


\* ------------------------------------------------------------ the sled engine
\* src/src/engine.rs: SledKvsEngine keeps a sled Db, a durable map from key bytes
\* to value bytes.  Each call answers in the Result types of the KvsEngine trait.

\* self.db.insert(key.as_bytes(), value.as_bytes())?; self.db.flush()?; Ok(())
SledSet(d, key, value) ==
    [db |-> [b \in DOMAIN d \cup {as_bytes(key)} |->
                 IF b = as_bytes(key) THEN as_bytes(value) ELSE d[b]],
     res |-> Ok]

\* self.db.get(key.as_bytes())?.as_deref().map(String::from_utf8_lossy ..)
SledGet(d, key) ==
    [db |-> d,
     res |-> IF as_bytes(key) \in DOMAIN d THEN Some(from_utf8(d[as_bytes(key)]))
             ELSE None]

\* self.db.remove(key.as_bytes())?; self.db.flush()?; Ok(())
SledRemove(d, key) ==
    [db |-> [b \in DOMAIN d \ {as_bytes(key)} |-> d[b]],
     res |-> Ok]

\* The values the callers of both engines store (one byte each, so that the log
\* engine never compacts while the two are compared).
EngineValues == {"x", "b"}

\* The same call made on a KvStore and on a SledKvsEngine that started empty
\* together.  The Db of sled outlives the store value as the log files do.
BothOpen ==
    /\ Open
    /\ sled_last' = NotCalled
    /\ UNCHANGED <<db, probe, codecvars, framevars, srvvars>>

BothClose ==
    /\ Close(TRUE)
    /\ sled_last' = NotCalled
    /\ UNCHANGED <<db, probe, codecvars, framevars, srvvars>>

BothGet(key) ==
    /\ Get(key)
    /\ db' = SledGet(db, key).db
    /\ sled_last' = SledGet(db, key).res
    /\ UNCHANGED <<probe, codecvars, framevars, srvvars>>

BothSet(key, value) ==
    /\ Set(key, value, TRUE)
    /\ db' = SledSet(db, key, value).db
    /\ sled_last' = SledSet(db, key, value).res
    /\ UNCHANGED <<probe, codecvars, framevars, srvvars>>

BothRemove(key) ==
    /\ Remove(key, TRUE)
    /\ db' = SledRemove(db, key).db
    /\ sled_last' = SledRemove(db, key).res
    /\ UNCHANGED <<probe, codecvars, framevars, srvvars>>

EngineNext ==
    \/ BothOpen
    \/ BothClose
    \/ \E k \in Keys : BothGet(k)
    \/ \E k \in Keys, v \in EngineValues : BothSet(k, v)
    \/ \E k \in Keys : BothRemove(k)

EngineSpec == Init /\ [][EngineNext]_vars


\* ------------------------------------------------------------ claims

\* C1: on one open store, a key whose last acknowledged operation is set(k, v)
\* reads back as Some(v), also when compactions ran in between.
C1_LastSetIsRead ==
    opened => \A k \in Keys : hist[k] \in Values => get(k) = Some(hist[k])

\* A compaction has just run inside a set that overwrote "a", and "a" reads back.
C1_Witness ==
    /\ opened
    /\ comp.fired
    /\ last = Call("set", "a", "x", Ok)
    /\ comp.map["a"] = Some("x")
    /\ get("a") = Some("x")

\* C2: a key whose last acknowledged operation is remove(k) reads back as None,
\* whatever was done to other keys since.
C2_RemovedIsNone ==
    opened => \A k \in Keys : hist[k] = "removed" => get(k) = None

\* "a" was removed, then "b" was set, and "a" still reads None.
C2_Witness ==
    /\ opened
    /\ hist["a"] = "removed"
    /\ last = Call("set", "b", "L", Ok)
    /\ get("a") = None
    /\ get("b") = Some("L")

\* C3: after a close and a reopen, get answers for every key what it answered just
\* before the close (the calls before the close all answered Ok or KeyDoesNotExist).
C3_ReopenKeepsMapping ==
    (opened /\ saved.kind = "close" /\ saved.clean) => GetMap = saved.map

\* C4: a remove of a key that is not in the index answers KeyDoesNotExist and leaves
\* the index, the files and the uncompacted counter as they were.
C4_RemoveMissing ==
    [][\A k \in Keys :
          (opened /\ k \notin DOMAIN index /\ last'.op = "remove" /\ last'.key = k)
          => /\ last'.res = Err("KeyDoesNotExist")
             /\ UNCHANGED <<index, dir, temp, uncompacted, writer>>]_vars

\* A remove has just failed on a key whose previous remove was acknowledged.
C4_Witness ==
    /\ opened
    /\ last = Call("remove", "a", "", Err("KeyDoesNotExist"))
    /\ hist["a"] = "removed"

\* C5: a compaction leaves the mapping read through get as it was right after the
\* triggering record was applied, and does not grow the bytes of the log files.
C5_CompactionKeepsMappingAndShrinks ==
    (opened /\ comp.fired)
    => /\ GetMap = comp.map
       /\ DirBytes(dir, temp) <= comp.size

\* C6: a compaction started at generation g leaves exactly the segments g+1 and g+2,
\* in the directory and in the reader set, every index entry in g+1, and
\* current_gen = g+2.
C6_CompactionGenerations ==
    (opened /\ comp.fired)
    => /\ current_gen = comp.gen + 2
       /\ DOMAIN dir = {comp.gen + 1, comp.gen + 2}
       /\ readers = {comp.gen + 1, comp.gen + 2}
       /\ \A k \in DOMAIN index : index[k].gen = comp.gen + 1

\* The longest frame a call of the model writes.
LargestRecord ==
    CHOOSE n \in {FrameLen(l) : l \in SetLines} :
        \A l \in SetLines : FrameLen(l) <= n

\* C7: after every completed open, set and remove, uncompacted is at most the
\* threshold plus the largest single record.
C7_UncompactedBounded ==
    opened => uncompacted <= COMPACTION_THRESHOLD + LargestRecord

\* C8: what a set or remove answered Ok to survives the death of the process: the
\* store reopened after it shows the set value, or None for the removed key; and no
\* frame of an acknowledged call is still in the writer's buffer.
C8_AcknowledgedIsDurable ==
    /\ (opened /\ saved.kind = "crash")
       => \A k \in Keys :
             /\ saved.hist[k] = "removed" => get(k) = None
             /\ saved.hist[k] \in Values => get(k) = Some(saved.hist[k])
    /\ (opened /\ last.op \in {"set", "remove"} /\ last.res = Ok)
       => writer.buf = <<>>

\* C9: a death inside a compaction leaves the segments that existed before it as
\* they were, and the reopened store reads what the store read before the
\* compaction started.
C9_CompactionCrashSafe ==
    saved.kind = "compaction"
    => /\ \A g \in DOMAIN saved.dir : g \in DOMAIN dir /\ dir[g] = saved.dir[g]
       /\ opened => GetMap = saved.map

HasTorn(file) == \E i \in 1..Len(file) : ~IsWhole(file[i])

\* The file cut back to its last good record boundary.
RECURSIVE GoodPrefix(_)
GoodPrefix(file) ==
    IF file = <<>> \/ ~IsWhole(file[1]) THEN <<>>
    ELSE <<file[1]>> \o GoodPrefix(Tail(file))

\* A frame cut inside its length prefix (fewer than 4 bytes of it are there).
HasShortPrefix(file) == \E i \in 1..Len(file) : file[i].n < 4

\* C10: when the damage is a short payload (the length prefix is whole), open fails
\* only if a segment below the highest-numbered one is damaged; a short payload at
\* the tail of the highest-numbered segment is cut off, and the index is the replay
\* of what is left.
C10_TornTailIsTruncated ==
    /\ (/\ last.op = "open"
        /\ last.res # Ok
        /\ \A g \in DOMAIN dir : ~HasShortPrefix(dir[g]))
       => \E g \in DOMAIN dir : g < MaxOf(DOMAIN dir) /\ HasTorn(dir[g])
    /\ (last.op = "open" /\ last.res = Ok)
       => LET before == DOMAIN dir \ {current_gen}
              cut == [g \in before |-> GoodPrefix(dir[g])]
          IN  index = Replay(cut, sorted_gen_list(before),
                             [ok |-> TRUE, index |-> EmptyIndex,
                              uncompacted |-> 0]).index

\* Every damaged frame of the file is its last one and is cut inside the length prefix.
OnlyShortPrefixTail(file) ==
    \A i \in 1..Len(file) : ~IsWhole(file[i]) => (file[i].n < 4 /\ i = Len(file))

\* C11: when the only damage of the directory is 1 to 3 bytes of a length prefix at
\* the end of a segment, open succeeds and the index holds exactly the records
\* before the partial prefix.
C11_ShortPrefixIsCleanEnd ==
    (/\ last.op = "open"
     /\ \E g \in DOMAIN dir : HasShortPrefix(dir[g])
     /\ \A g \in DOMAIN dir : OnlyShortPrefixTail(dir[g]))
    => /\ last.res = Ok
       /\ LET before == DOMAIN dir \ {current_gen}
              cut == [g \in before |-> GoodPrefix(dir[g])]
          IN  index = Replay(cut, sorted_gen_list(before),
                             [ok |-> TRUE, index |-> EmptyIndex,
                              uncompacted |-> 0]).index

FirstFrameWhole ==
    sent # <<>> /\ sent[1].bytes = Len(WireFrame(sent[1].msg))

\* C15: for a message of any payload length, receive_network_message on the stream
\* that send_network_message wrote to returns exactly the serialized message and
\* takes exactly the bytes of that one frame from the stream.
C15_ReceiveReturnsPayload ==
    (received # NotReceived /\ FirstFrameWhole)
    => /\ received.res = <<"Ok", serialize_message(sent[1].msg)>>
       /\ received.taken = Len(WireFrame(sent[1].msg))

\* C16: when the peer closes the stream inside a frame (in the length bytes, before
\* the line feed or in the payload), receive_network_message returns an error
\* value: it does not panic and returns no payload.
C16_EofInFrameIsError ==
    (received # NotReceived /\ sent # <<>> /\ ~FirstFrameWhole /\ sent[1].bytes >= 1)
    => received.res[1] = "Err"

Backends == {"kvs", "sled"}

\* C12: once the directory was opened with backend B1, a start that asks for another
\* backend B2 fails with WrongEngineType and leaves the engine marker as it was.
C12_MarkerIsSticky ==
    (/\ server.state # "down"
     /\ server.owner \in Backends
     /\ server.requested \in Backends
     /\ server.requested # server.owner)
    => /\ server.state = "exited"
       /\ server.result = Err("WrongEngineType")
       /\ marker = server.owner

\* C13: the first successful open writes the marker with the selected backend, the
\* marker, if present, names the backend in use, and a start without --engine uses
\* the recorded backend (kvs when there is no marker).
C13_MarkerNamesBackend ==
    /\ server.owner # "" => marker = server.owner
    /\ (server.state = "listening" /\ marker # "absent")
       => server.engine_name = marker
    /\ (server.state = "listening" /\ server.requested = "none")
       => server.engine_name = (IF server.owner = "" THEN "kvs" ELSE server.owner)

\* The message a client that expects either the bare serialized message or one
\* frame reads from the connection's output.
ReplyOf(c) ==
    LET bare == deserialize_message(c.output)
        framed == deserialize_message(SubSeq(c.output, UsizeBytes + 2, Len(c.output)))
    IN  IF bare[1] = "Ok" THEN bare[2]
        ELSE IF framed[1] = "Ok" THEN framed[2]
        ELSE NoMessage

\* The request of the connection, and that it was served for a client that stayed.
RequestOf(c) ==
    LET m == deserialize_message(c.input)
    IN  IF m[1] = "Ok" /\ m[2].variant = "Request" THEN m[2] ELSE NoMessage
Served(cmd) ==
    /\ server.state = "listening"
    /\ conn.state = "closed"
    /\ conn.client
    /\ RequestOf(conn).command = cmd

\* C17: a Get of an absent key is answered with Response{"Key not found"}, a Remove of
\* an absent key with Error{"Key not found"}.
C17_MissesAreDistinct ==
    /\ (Served("Get") /\ last.op = "get" /\ last.res = None)
       => ReplyOf(conn) = Response(KeyNotFoundText)
    /\ (Served("Rm") /\ last = Call("remove", last.key, "", Err("KeyDoesNotExist")))
       => ReplyOf(conn) = Error(KeyNotFoundText)

\* C18: a Set or Remove that the engine answered Ok to is answered with the message
\* Ok, a failed Set with Error carrying the error's text.
C18_SuccessIsOk ==
    /\ (Served("Set") /\ last.op = "set" /\ last.res = Ok)
       => ReplyOf(conn) = OkMessage
    /\ (Served("Rm") /\ last.op = "remove" /\ last.res = Ok)
       => ReplyOf(conn) = OkMessage
    /\ (Served("Set") /\ last.op = "set" /\ last.res[1] = "Err")
       => ReplyOf(conn) = Error(to_string(last.res[2]))

\* The bytes are exactly one frame: 8 length bytes, a line feed, and a payload of
\* that length that decodes to a message.
IsOneFrame(b) ==
    /\ Len(b) >= UsizeBytes + 1
    /\ b[UsizeBytes + 1] = 10
    /\ from_le_bytes(SubSeq(b, 1, UsizeBytes)) = Len(b) - UsizeBytes - 1
    /\ deserialize_message(SubSeq(b, UsizeBytes + 2, Len(b)))[1] = "Ok"

\* C19: a connection whose client stayed is closed only after exactly one framed
\* message was written to it, and a request that could not be decoded or was not a
\* Request is answered with a framed Error.
C19_OneFramedReply ==
    (conn.state = "closed" /\ conn.client)
    => /\ IsOneFrame(conn.output)
       /\ RequestOf(conn) = NoMessage => ReplyOf(conn).variant = "Error"

\* C20: handling a connection whose bytes do not parse as a request (a client that
\* went away inside its request included) leaves the engine as it was, and the
\* server goes on listening.
C20_BadRequestEndsOnlyItsConnection ==
    [][(/\ conn.state = "accepted"
        /\ conn'.state = "closed"
        /\ RequestOf(conn) = NoMessage)
       => /\ UNCHANGED <<dir, temp>>
          /\ server'.state = "listening"
          /\ opened'
          /\ GetMap' = GetMap]_vars

\* ------------------------------------------------------------ the log as a whole
\* The records of one segment with the place each of them starts at.
RecordsOf(gen, file) ==
    [i \in 1..Len(file) |-> [gen |-> gen, pos |-> FrameStart(file, i), frame |-> file[i]]]

\* All records of the directory: segments in ascending generation, records in file
\* order.
RECURSIVE DiskRecordsIn(_, _)
DiskRecordsIn(d, gen_list) ==
    IF gen_list = <<>> THEN <<>>
    ELSE RecordsOf(gen_list[1], d[gen_list[1]]) \o DiskRecordsIn(d, Tail(gen_list))

DiskRecords(d) == DiskRecordsIn(d, sorted_gen_list(DOMAIN d))

\* The i-th record is a Set that no later Set or Rm of its key follows.
IsLive(recs, i) ==
    /\ recs[i].frame.type = "Set"
    /\ \A j \in (i + 1)..Len(recs) : recs[j].frame.key # recs[i].frame.key

C22_LiveKeysAreIndexed ==
    opened =>
      LET recs == DiskRecords(dir)
      IN  \A i \in 1..Len(recs) :
             IsLive(recs, i) =>
                /\ recs[i].frame.key \in DOMAIN index
                /\ index[recs[i].frame.key] =
                      CommandPos(recs[i].gen, recs[i].pos, recs[i].pos + recs[i].frame.n)

\* a is a prefix of b.
IsPrefix(a, b) == Len(a) <= Len(b) /\ SubSeq(b, 1, Len(a)) = a

\* C23: no step changes bytes a segment already has: a segment that is there before
\* and after a step keeps its contents as a prefix, a segment older than the active
\* one is not written at all, and a segment leaves the directory only through a
\* compaction.
C23_AppendOnly ==
    [][\A g \in DOMAIN dir :
          /\ g \in DOMAIN dir' => IsPrefix(dir[g], dir'[g])
          /\ (g \in DOMAIN dir' /\ opened /\ g < current_gen) => dir'[g] = dir[g]
          /\ g \notin DOMAIN dir' => comp'.fired]_vars

\* The largest generation among the segment files (0: no segment).
Largest(gens) == IF gens = {} THEN 0 ELSE CHOOSE g \in gens : \A h \in gens : h <= g

RECURSIVE DroppableFrom(_, _)
DroppableFrom(recs, i) ==
    IF i > Len(recs) THEN 0
    ELSE (IF IsLive(recs, i) THEN 0 ELSE recs[i].frame.n) + DroppableFrom(recs, i + 1)

Droppable(d) == DroppableFrom(DiskRecords(d), 1)

\* C25: while the store is open, uncompacted is at least the bytes of the records a
\* full compaction would drop; a successful remove adds the displaced Set record's
\* length plus the length of its own Rm record.
C25_UncompactedCoversStale ==
    [][/\ (opened' /\ writer'.buf = <<>>) => uncompacted' >= Droppable(dir')
       /\ \A k \in Keys :
             (opened /\ k \in DOMAIN index /\ last' = Call("remove", k, "", Ok))
             => uncompacted' = uncompacted + index[k].len + FrameLen(RmLine(k))]_vars

\* C26: get answers with a value only when the record at the index entry's place is
\* a Set of the key asked for; when the record is an Rm, or a Set of another key,
\* it answers UnexpectedCommandType.
C26_GetChecksTheRecord ==
    probe.res # NotCalled =>
       /\ probe.res[1] = "Some"
          => (probe.record.type = "Set" /\ probe.record.key = probe.key)
       /\ (probe.record.type = "Rm" \/ probe.record.key # probe.key)
          => probe.res = Err("UnexpectedCommandType")

\* C27: the same sequence of set, get and remove gives the same answers on the sled
\* engine and on the log engine; a remove of an absent key fails with
\* KeyDoesNotExist on both, and a get after a successful remove is None on both.
C27_EnginesAgree ==
    last.op \in {"get", "set", "remove"} =>
       /\ sled_last = last.res
       /\ (last.op = "remove" /\ last.res # Ok)
          => (last.res = Err("KeyDoesNotExist") /\ sled_last = Err("KeyDoesNotExist"))

\* C28: a set or remove that answers an error leaves the mapping read through get
\* as it was before the call; and a remove answers Ok only when its Rm record is in
\* the log, at the end of the active segment.
C28_AllOrNothing ==
    [][(opened /\ last'.op \in {"set", "remove"}) =>
          /\ last'.res # Ok => GetMapOf(index', readers', dir') = GetMap
          /\ (last'.op = "remove" /\ last'.res = Ok)
             => /\ dir'[current_gen'] # <<>>
                /\ dir'[current_gen'][Len(dir'[current_gen'])] = Whole(RmLine(last'.key))
                /\ Len(dir'[current_gen']) > Len(dir[current_gen])]_vars

\* C29: while the store is open, the reader set has a reader for the generation of
\* every index entry and for the active generation, and no get ends in the
\* "Cannot find log reader" panic.
C29_ReadersCoverIndex ==
    /\ opened =>
          /\ current_gen \in readers
          /\ \A k \in DOMAIN index : index[k].gen \in readers
    /\ last.op = "get" => last.res # <<"panic", "Cannot find log reader">>

\* A store reopened on an older segment has run a compaction that rebuilt both
\* index entries, and a get after it has answered with a value.
C29_Witness ==
    /\ opened
    /\ compacted
    /\ current_gen = 2
    /\ DOMAIN index = Keys
    /\ last.op = "get"
    /\ last.res[1] = "Some"

\* What open computes from a directory: the sum of what load returns per segment.
ReplayedUncompacted(d) ==
    Replay(d, sorted_gen_list(DOMAIN d),
           [ok |-> TRUE, index |-> EmptyIndex, uncompacted |-> 0]).uncompacted

\* C30: when a store that has run no compaction is closed, the uncompacted value
\* that the next open computes by replaying the directory is the value the store
\* held when it was closed.
C30_ReplayedUncompactedIsTheSame ==
    [][(opened /\ ~compacted /\ last'.op = "close")
       => ReplayedUncompacted(dir') = uncompacted]_vars

====
